---- MODULE Spec2Model ----
(***************************************************************************)
(* FactMatcher (sling/nlp/wikicat/fact_matcher.py): classification of a    *)
(* proposed fact (item, prop, value) against the facts the knowledge base  *)
(* already holds for the item, and the date comparison it rests on.        *)
(***************************************************************************)
EXTENDS Integers, Sequences, FiniteSets, TLC

VARIABLES kb, call, dates, cmp, agg, task

vars == <<kb, call, dates, cmp, agg, task>>

(***************************************************************************)
(* Bounds of the model.                                                    *)
(***************************************************************************)
\* Longest sequence of facts the extractor yields for one item and pid.
MaxFacts == 2
\* Largest number of Output.add calls on one Output.
MaxAdds == 12
\* Largest number of records in the input of FactMatcherTask.run.
MaxRecords == 2

(***************************************************************************)
(* sling.Date precisions, coarsest to finest.                              *)
(***************************************************************************)
MILLENNIUM == 1
CENTURY == 2
DECADE == 3
YEAR == 4
MONTH == 5
DAY == 6

Precisions == MILLENNIUM..DAY

(***************************************************************************)
(* FactMatchType, and the error an assert raises.                          *)
(***************************************************************************)
FactMatchType ==
  {"NEW", "EXACT", "SUBSUMES_EXISTING", "SUBSUMED_BY_EXISTING", "CONFLICT",
   "ADDITIONAL"}

AssertionError == "AssertionError"
TypeError == "TypeError"

(***************************************************************************)
(* Values.  A value is a sling.Frame (frame = TRUE) or a raw int / string  *)
(* (frame = FALSE).  Items carry an id; temporal values carry precision,   *)
(* year, month and day.                                                    *)
(***************************************************************************)
Item(id) ==
  [frame |-> TRUE, id |-> id, precision |-> 0, year |-> 0, month |-> 0,
   day |-> 0]

RawText(id) ==
  [frame |-> FALSE, id |-> id, precision |-> 0, year |-> 0, month |-> 0,
   day |-> 0]

Temporal(isframe, p, y, m, d) ==
  [frame |-> isframe, id |-> "time", precision |-> p, year |-> y,
   month |-> m, day |-> d]

NoValue == RawText("none")

\* Items of the knowledge base; ParisRedirect is a redirect to Paris.
CanonicalIds == {"Paris", "France", "Europe"}
ItemFrames == {Item(i) : i \in CanonicalIds \cup {"ParisRedirect"}}
ItemValues == ItemFrames \cup {RawText("text")}

\* Temporal values: frames, and one raw int (1990) as the KB may store it.
Year1990 == Temporal(TRUE, YEAR, 1990, 0, 0)
March1990 == Temporal(TRUE, MONTH, 1990, 3, 0)
Decade1990 == Temporal(TRUE, DECADE, 1990, 0, 0)
RawYear1990 == Temporal(FALSE, YEAR, 1990, 0, 0)
DateValues == {Year1990, March1990, Decade1990, RawYear1990}

(***************************************************************************)
(* The knowledge base schema the property index is built from.             *)
(***************************************************************************)
Props == {"P569", "P585", "P26", "P19", "P69", "P106"}

\* prop.target of each role of /w/entity.
PropTarget(p) == IF p \in {"P569", "P585"} THEN "/w/time" ELSE "/w/item"
\* Whether prop has a P1647 (subproperty of) slot resolving to P276.
SubpropertyOfLocation(p) == p \in {"P19"}
\* Whether prop has a P2302 constraint that is Q19474404 (single value).
SingleValueConstraint(p) == p \in {"P569", "P26", "P19"}

\* FactMatcher.__init__: the three property sets.
date_properties == {p \in Props : PropTarget(p) = "/w/time"}
location_properties ==
  {p \in Props : PropTarget(p) = "/w/item" /\ SubpropertyOfLocation(p)}
unique_properties == {p \in Props : SingleValueConstraint(p)}

\* FactMatcher.__init__: closure_properties; "none" when prop has no entry.
closure_properties(p) ==
  IF p = "P69" THEN "P361"
  ELSE IF p \in location_properties THEN "P131"
  ELSE "none"

p_subclass == "P279"
p_parent_org == "P749"

\* An edge <<r, a, b>>: item a has a slot r whose value is item b.
\* The edges a knowledge base may hold: a located-in chain, every
\* subclass-of and parent-organization edge between two items (cycles
\* included), and one part-of edge.
PossibleEdges ==
  {<<"P131", "Paris", "France">>, <<"P131", "France", "Europe">>,
   <<"P279", "Paris", "France">>, <<"P279", "France", "Paris">>,
   <<"P749", "Paris", "France">>, <<"P749", "France", "Paris">>,
   <<"P361", "Paris", "France">>}

(***************************************************************************)
(* Services of the knowledge base and of the fact extractor.               *)
(***************************************************************************)
\* kb.resolve: follows a redirect to the item it stands for.
resolve(v) == IF v.id = "ParisRedirect" THEN Item("Paris") ELSE v

\* The values of the 'relation' slots of the items of 'from'.
Successors(relation, from) ==
  {e[3] : e \in {x \in kb : x[1] = relation /\ x[2] \in from}}

\* Items reachable from the set 'seen' by edges of 'relation'; the visited
\* set ends the traversal on a cycle.
RECURSIVE Closure(_, _)
Closure(relation, seen) ==
  LET next == seen \cup Successors(relation, seen)
  IN  IF next = seen THEN seen ELSE Closure(relation, next)

\* extractor.in_closure(store, relation, start, target): target is reached
\* from start by following edges of relation.  Equality of start and target
\* is the caller's test, not this one's.
in_closure(relation, start, target) ==
  target.id \in Closure(relation, Successors(relation, {start.id}))

\* extractor.facts_for(store, item, [pid], closure): the item's facts whose
\* first property is pid, each a record of its pids and its value.
facts_for(item, pid) ==
  LET Keep(f) == f.pids[1] = pid IN SelectSeq(item, Keep)

(***************************************************************************)
(* sling.Date                                                              *)
(***************************************************************************)
\* sling.Date(v): the temporal value v denotes.
Date(v) ==
  [precision |-> v.precision, year |-> v.year, month |-> v.month,
   day |-> v.day]

\* Date.value(): the normalized scalar of a date.
DateValue(d) ==
  IF d.precision = DAY THEN d.year * 10000 + d.month * 100 + d.day
  ELSE IF d.precision = MONTH THEN d.year * 100 + d.month
  ELSE IF d.precision = YEAR THEN d.year
  ELSE IF d.precision = DECADE THEN d.year \div 10
  ELSE IF d.precision = CENTURY THEN d.year \div 100
  ELSE IF d.precision = MILLENNIUM THEN d.year \div 1000
  ELSE 0 - 1

(***************************************************************************)
(* FactMatcher                                                             *)
(***************************************************************************)
Range(s) == {s[i] : i \in 1..Len(s)}

_date_valued(prop) == prop \in date_properties

\* _existing_facts without the test of line 156.
_existing_facts_unfiltered(item, prop) ==
  LET facts == facts_for(item, prop[1])
  IN  [i \in 1..Len(facts) |-> facts[i].value]

\* _existing_facts: the values of the facts whose pids equal prop.
_existing_facts(item, prop) ==
  LET facts == facts_for(item, prop[1])
      Match(f) == f.pids = prop
      kept == SelectSeq(facts, Match)
  IN  [i \in 1..Len(kept) |-> kept[i].value]

\* _finer_date with the precision test of line 164 weakened to '<'.
_finer_date_weak(first, second) ==
  IF first.precision < second.precision THEN FALSE
  ELSE IF second.precision = MILLENNIUM
    THEN first.year >= second.year /\ first.year < second.year + 1000
  ELSE IF second.precision = CENTURY
    THEN first.year >= second.year /\ first.year < second.year + 100
  ELSE IF second.precision = DECADE
    THEN first.year >= second.year /\ first.year < second.year + 10
  ELSE IF second.precision = YEAR THEN first.year = second.year
  ELSE IF second.precision = MONTH
    THEN first.year = second.year /\ first.month = second.month
  ELSE FALSE

\* _finer_date: whether 'first' is a finer-precision date than 'second'.
_finer_date(first, second) ==
  IF first.precision <= second.precision THEN FALSE
  ELSE IF second.precision = MILLENNIUM
    THEN first.year >= second.year /\ first.year < second.year + 1000
  ELSE IF second.precision = CENTURY
    THEN first.year >= second.year /\ first.year < second.year + 100
  ELSE IF second.precision = DECADE
    THEN first.year >= second.year /\ first.year < second.year + 10
  ELSE IF second.precision = YEAR THEN first.year = second.year
  ELSE IF second.precision = MONTH
    THEN first.year = second.year /\ first.month = second.month
  ELSE FALSE

\* subsumes without the equality test of lines 185-186.
subsumes_no_equality(prop, coarse, fine) ==
  LET c == resolve(coarse)
      f == resolve(fine)
      closure_property == closure_properties(prop)
  IN  IF closure_property # "none"
        THEN in_closure(closure_property, c, f)
      ELSE in_closure(p_subclass, c, f) \/ in_closure(p_parent_org, c, f)

\* subsumes: whether 'coarse' subsumes 'fine' by following 'prop' edges.
subsumes(prop, coarse, fine) ==
  LET c == resolve(coarse)
      f == resolve(fine)
      closure_property == closure_properties(prop)
  IN  IF c = f THEN TRUE
      ELSE IF closure_property # "none"
        THEN in_closure(closure_property, c, f)
      ELSE in_closure(p_subclass, c, f) \/ in_closure(p_parent_org, c, f)

\* for_item, lines 205-208: a single property becomes a one-element path.
NormalizeProp(prop) == IF prop.single THEN <<prop.pids[1]>> ELSE prop.pids

Last(s) == s[Len(s)]

\* The membership test of line 218 looking at the first fact only.
LiteralExact_first_only(exact_facts, value) == value = exact_facts[1]

\* for_item, line 218: value in exact_facts.
LiteralExact(exact_facts, value) == value \in Range(exact_facts)

\* for_item, lines 224-229: a date scalar-equal to the proposed one exists.
ScalarExact(exact_facts, value) ==
  \E i \in 1..Len(exact_facts) :
    DateValue(Date(exact_facts[i])) = DateValue(Date(value))

\* for_item, lines 233-241: the proposed fact subsumes existing fact e.
SubsumesExisting(prop, value, e) ==
  IF _date_valued(Last(prop)) THEN _finer_date(Date(e), Date(value))
  ELSE e.frame /\ subsumes(Last(prop), value, e)

\* Lines 245-253 with the arguments of the comparison in the order of
\* lines 233-241.
SubsumedByExisting_swapped(prop, value, e) ==
  IF _date_valued(Last(prop)) THEN _finer_date(Date(e), Date(value))
  ELSE e.frame /\ subsumes(Last(prop), value, e)

\* for_item, lines 245-253: the proposed fact is subsumed by existing fact e.
SubsumedByExisting(prop, value, e) ==
  IF _date_valued(Last(prop)) THEN _finer_date(Date(value), Date(e))
  ELSE e.frame /\ subsumes(Last(prop), e, value)

\* Line 256 without its length test, on the terminal property.
Conflicts_any_length(prop) == Last(prop) \in unique_properties

\* Line 256 with the set of properties mistaken.
Conflicts_wrong_set(prop) == Len(prop) = 1 /\ prop[1] \in location_properties

\* for_item, line 256: a single unique-valued property.
Conflicts(prop) == Len(prop) = 1 /\ prop[1] \in unique_properties

\* Lines 215-260 with the check of lines 243-253 ahead of that of 231-241.
Classify_subsumed_first(prop, exact_facts, value) ==
  IF Len(exact_facts) = 0 THEN "NEW"
  ELSE IF LiteralExact(exact_facts, value) THEN "EXACT"
  ELSE IF _date_valued(Last(prop)) /\ ScalarExact(exact_facts, value)
    THEN "EXACT"
  ELSE IF \E i \in 1..Len(exact_facts) :
            SubsumedByExisting(prop, value, exact_facts[i])
    THEN "SUBSUMED_BY_EXISTING"
  ELSE IF \E i \in 1..Len(exact_facts) :
            SubsumesExisting(prop, value, exact_facts[i])
    THEN "SUBSUMES_EXISTING"
  ELSE IF Conflicts(prop) THEN "CONFLICT"
  ELSE "ADDITIONAL"

\* for_item, lines 215-260: the first rule that applies decides.
Classify(prop, exact_facts, value) ==
  IF Len(exact_facts) = 0 THEN "NEW"
  ELSE IF LiteralExact(exact_facts, value) THEN "EXACT"
  ELSE IF _date_valued(Last(prop)) /\ ScalarExact(exact_facts, value)
    THEN "EXACT"
  ELSE IF \E i \in 1..Len(exact_facts) :
            SubsumesExisting(prop, value, exact_facts[i])
    THEN "SUBSUMES_EXISTING"
  ELSE IF \E i \in 1..Len(exact_facts) :
            SubsumedByExisting(prop, value, exact_facts[i])
    THEN "SUBSUMED_BY_EXISTING"
  ELSE IF Conflicts(prop) THEN "CONFLICT"
  ELSE "ADDITIONAL"

\* for_item: the assert of line 204, the path of lines 205-208 (list(prop)
\* raises when the path is missing), the existing facts without backoff of
\* line 214, then the classification.
for_item(item, proparg, value) ==
  IF ~value.frame THEN AssertionError
  ELSE IF Len(proparg.pids) = 0 THEN TypeError
  ELSE LET prop == NormalizeProp(proparg)
       IN  Classify(prop, _existing_facts(item, prop), value)

(***************************************************************************)
(* FactMatcher.Output                                                      *)
(***************************************************************************)
MAX_SOURCE_ITEMS == 10

TYPES_WITH_EXEMPLARS_ONLY == {"EXACT", "CONFLICT", "SUBSUMES_EXISTING"}

\* Output.__init__: the two defaultdicts, a missing key read as 0 and [].
EmptyOutput ==
  [counts |-> [t \in FactMatchType |-> 0],
   source_items |-> [t \in FactMatchType |-> <<>>]]

\* Output.add with the length test of line 72 off by one.
OutputAdd_off_by_one(output, match_type, source_item) ==
  LET counted == [output EXCEPT !.counts[match_type] = @ + 1]
  IN  IF \/ match_type \notin TYPES_WITH_EXEMPLARS_ONLY
         \/ Len(output.source_items[match_type]) <= MAX_SOURCE_ITEMS
        THEN [counted EXCEPT !.source_items[match_type] =
                               Append(@, source_item)]
      ELSE counted

\* Output.add: counts the match type and keeps the source item, unless the
\* type keeps exemplars only and already holds MAX_SOURCE_ITEMS of them.
OutputAdd(output, match_type, source_item) ==
  LET counted == [output EXCEPT !.counts[match_type] = @ + 1]
  IN  IF \/ match_type \notin TYPES_WITH_EXEMPLARS_ONLY
         \/ Len(output.source_items[match_type]) < MAX_SOURCE_ITEMS
        THEN [counted EXCEPT !.source_items[match_type] =
                               Append(@, source_item)]
      ELSE counted

\* Output.as_frame: one bucket per match type counted, with its name, its
\* count and its source items.
as_frame(output) ==
  {[match_type |-> t, count |-> output.counts[t],
    source_items |-> output.source_items[t]] :
     t \in {u \in FactMatchType : output.counts[u] > 0}}

(***************************************************************************)
(* FactMatcher.for_items and the cache of for_parses                       *)
(***************************************************************************)
\* The loop of for_items from item i on; an error of for_item ends it.
RECURSIVE for_items_from(_, _, _, _, _)
for_items_from(items, i, prop, value, output) ==
  IF i > Len(items) THEN [error |-> "none", output |-> output]
  ELSE LET match == for_item(items[i], prop, value)
       IN  IF match \notin FactMatchType
             THEN [error |-> match, output |-> output]
           ELSE for_items_from(items, i + 1, prop, value,
                               OutputAdd(output, match, items[i]))

\* for_items: the histogram of match types over the items.
for_items(items, prop, value) ==
  for_items_from(items, 1, prop, value, EmptyOutput)

\* The key of a span in the caches: (span.pids, span.qid).
KeyOf(span) == <<span.pids, span.qid>>

EmptyCache == [k \in {} |-> 0]

\* A cache that is left as the record before left it.
FreshCache_kept == task.cache

\* for_parses, line 289: the cache of one call starts empty.
FreshCache == EmptyCache

\* A frame cache that is left as the record before left it.
FreshFrameCache_kept == task.frame_cache

\* run, line 322: the frame cache of one record starts empty.
FreshFrameCache == EmptyCache

\* Line 299 left out: nothing is stored.
CacheStore_dropped(cache, key, entry) == cache

\* for_parses, line 299: cache[key] = stats.
CacheStore(cache, key, entry) == (key :> entry) @@ cache

\* run, line 328: frame_cache[span_key] = match_frame.
FrameCacheStore(cache, key, entry) == (key :> entry) @@ cache

\* The counter incremented once per parse of the record.
Increment_per_parse(counter, category) == counter + Len(category.parses)

\* run, line 331: task.increment adds one per record.
Increment(counter, category) == counter + 1

\* Lines 330-331 in the other order.
Effects_increment_first(events) == events \o <<"increment", "write">>

\* run, lines 330-331: writer.write, then task.increment.
Effects(events) == events \o <<"write", "increment">>

\* The record of line 330 written under the key of an earlier record.
Written_first_key(key, annotated) ==
  [key |-> task.input[1].key, parses |-> annotated]

\* run, line 330: the record written, its key and its annotated spans.
Written(key, annotated) == [key |-> key, parses |-> annotated]

(***************************************************************************)
(* Inputs of for_item.                                                     *)
(***************************************************************************)
Path(pids) == [single |-> FALSE, pids |-> pids]
Single(pid) == [single |-> TRUE, pids |-> <<pid>>]

PropArgs ==
  {Path(<<p>>) : p \in Props}
    \cup {Path(<<"P26", "P569">>), Path(<<"P26", "P19">>), Single("P26")}

\* Values of the type the terminal property of the path holds.
ValuesFor(proparg) ==
  IF _date_valued(Last(NormalizeProp(proparg))) THEN DateValues ELSE ItemValues

\* A path with the same first property that is not the requested one.
OtherPath(prop) == IF Len(prop) = 1 THEN <<prop[1], "P585">> ELSE <<prop[1]>>

\* The facts an item may hold under the first property of the path.
FactPool(proparg) ==
  LET prop == NormalizeProp(proparg)
  IN  {[pids |-> prop, value |-> v] : v \in ValuesFor(proparg)}
        \cup {[pids |-> OtherPath(prop), value |-> Year1990]}

RECURSIVE SeqsUpTo(_, _)
SeqsUpTo(S, n) ==
  IF n = 0 THEN {<<>>}
  ELSE LET prev == SeqsUpTo(S, n - 1)
       IN  prev \cup {Append(s, x) : s \in prev, x \in S}

Idle ==
  [pc |-> "idle", item |-> <<>>, prop |-> Path(<<>>), value |-> NoValue,
   result |-> "none"]

(***************************************************************************)
(* Inputs of _finer_date.                                                  *)
(***************************************************************************)
Years == {1000, 1950, 1990, 2010}
Months == {3, 4}

DateDomain ==
  {[precision |-> p, year |-> y, month |-> m, day |-> 1] :
     p \in Precisions, y \in Years, m \in Months}

NoDates == <<Date(NoValue), Date(NoValue), Date(NoValue)>>
NoCmp == [done |-> FALSE, aa |-> FALSE, ab |-> FALSE, ba |-> FALSE,
          bc |-> FALSE, ac |-> FALSE]

\* An Output under a sequence of add calls: the match types the calls may
\* carry, the number of calls, the Output, and the items added per type.
NoAgg ==
  [allowed |-> {}, n |-> 0, out |-> EmptyOutput,
   added |-> [t \in FactMatchType |-> <<>>]]

\* The sets of match types one sequence of add calls draws from.
TypeChoices == {S \in SUBSET FactMatchType : Cardinality(S) \in {1, 2}}

(***************************************************************************)
(* Inputs of FactMatcherTask.run.                                          *)
(***************************************************************************)
Fact(pids, value) == [pids |-> pids, value |-> value]

\* Members of a category: an item with no fact, one whose spouse (P26) is
\* Paris, one whose spouse is France.
NoFacts == <<>>
HasParis == <<Fact(<<"P26">>, Item("Paris"))>>
HasFrance == <<Fact(<<"P26">>, Item("France"))>>

MemberLists == {<<>>, <<HasParis>>, <<NoFacts, HasFrance>>}

Span(pids, qid) == [pids |-> pids, qid |-> qid]

SpanParis == Span(Path(<<"P26">>), Item("Paris"))
SpanFrance == Span(Path(<<"P26">>), Item("France"))
\* A span whose qid is missing, and one whose pids are missing.
SpanNoValue == Span(Path(<<"P26">>), NoValue)
SpanNoPath == Span(Path(<<>>), Item("Paris"))

\* The span lacks a resolvable property path or value.
Malformed(span) == ~span.qid.frame \/ Len(span.pids.pids) = 0

\* The parses of a category, each a sequence of spans.
ParseLists ==
  {<<>>,
   <<<<SpanParis>>>>,
   <<<<SpanParis, SpanFrance>>, <<SpanParis>>>>,
   <<<<SpanFrance, SpanNoValue>>>>,
   <<<<SpanNoPath>>>>}

RecordKeys == {"Q1", "Q2"}

Records ==
  {[key |-> k, members |-> m, parses |-> ps] :
     k \in RecordKeys, m \in MemberLists, ps \in ParseLists}

NoTask == [pc |-> "idle"]

\* FactMatcherTask.run before it reads its first record.
StartTask(input) ==
  [pc |-> "read", input |-> input, idx |-> 0, p |-> 1, s |-> 1,
   cache |-> EmptyCache, frame_cache |-> EmptyCache, matches |-> <<>>,
   annotated |-> <<>>, invoked |-> <<>>, hits |-> {}, written |-> <<>>,
   counter |-> 0, events |-> <<>>, error |-> "none"]

(***************************************************************************)
(* Specification of the classifier.                                        *)
(***************************************************************************)
Init ==
  /\ kb \in SUBSET PossibleEdges
  /\ call = Idle
  /\ dates = NoDates
  /\ cmp = NoCmp
  /\ agg = NoAgg
  /\ task = NoTask

\* One call of FactMatcher.for_item(item, prop, value).
ForItem ==
  /\ call.pc = "idle"
  /\ \E proparg \in PropArgs :
       \E item \in SeqsUpTo(FactPool(proparg), MaxFacts) :
         \E value \in ValuesFor(proparg) :
           call' = [pc |-> "done", item |-> item, prop |-> proparg,
                    value |-> value,
                    result |-> for_item(item, proparg, value)]
  /\ UNCHANGED <<kb, dates, cmp, agg, task>>

Next == ForItem

Spec == Init /\ [][Next]_vars

(***************************************************************************)
(* Specification of the date comparator.                                   *)
(***************************************************************************)
InitDates ==
  /\ kb = {}
  /\ call = Idle
  /\ dates \in DateDomain \X DateDomain \X DateDomain
  /\ cmp = NoCmp
  /\ agg = NoAgg
  /\ task = NoTask

\* _finer_date applied to the pairs of the three dates.
FinerDate ==
  /\ ~cmp.done
  /\ cmp' = [done |-> TRUE,
             aa |-> _finer_date(dates[1], dates[1]),
             ab |-> _finer_date(dates[1], dates[2]),
             ba |-> _finer_date(dates[2], dates[1]),
             bc |-> _finer_date(dates[2], dates[3]),
             ac |-> _finer_date(dates[1], dates[3])]
  /\ UNCHANGED <<kb, call, dates, agg, task>>

NextDates == FinerDate

SpecDates == InitDates /\ [][NextDates]_vars

(***************************************************************************)
(* Specification of the Output histogram.                                  *)
(***************************************************************************)
InitOutput ==
  /\ kb = {}
  /\ call = Idle
  /\ dates = NoDates
  /\ cmp = NoCmp
  /\ agg \in {[NoAgg EXCEPT !.allowed = S] : S \in TypeChoices}
  /\ task = NoTask

\* One call of Output.add(match_type, source_item); the source item is the
\* next item of the collection, named by its position.
AddToOutput ==
  /\ agg.n < MaxAdds
  /\ \E match_type \in agg.allowed :
       agg' = [agg EXCEPT
                 !.n = @ + 1,
                 !.out = OutputAdd(@, match_type, agg.n + 1),
                 !.added[match_type] = Append(@, agg.n + 1)]
  /\ UNCHANGED <<kb, call, dates, cmp, task>>

NextOutput == AddToOutput

SpecOutput == InitOutput /\ [][NextOutput]_vars

(***************************************************************************)
(* Specification of FactMatcherTask.run and FactMatcher.for_parses.        *)
(***************************************************************************)
InitTask ==
  /\ kb = {}
  /\ call = Idle
  /\ dates = NoDates
  /\ cmp = NoCmp
  /\ agg = NoAgg
  /\ task \in {StartTask(input) : input \in SeqsUpTo(Records, MaxRecords)}

\* The record being processed, and the span at position (p, s) of it.
Category == task.input[task.idx]
CurrentSpan == Category.parses[task.p][task.s]
SpansLeft == task.p <= Len(Category.parses)

\* The position after (p, s): the next span, or the first of the next parse.
NextP == IF task.s < Len(Category.parses[task.p]) THEN task.p ELSE task.p + 1
NextS == IF task.s < Len(Category.parses[task.p]) THEN task.s + 1 ELSE 1

\* x put at position (p, s) of a list of lists filled in order.
Put(lists, x) ==
  IF task.s = 1 THEN Append(lists, <<x>>)
  ELSE [lists EXCEPT ![task.p] = Append(@, x)]

\* run, lines 318-321, and for_parses, lines 284-289: the next record is
\* read and parsed, and for_parses starts on it with its cache.
ReadRecord ==
  /\ task.pc = "read"
  /\ task.idx < Len(task.input)
  /\ task' = [task EXCEPT !.idx = @ + 1, !.pc = "for_parses", !.p = 1,
                          !.s = 1, !.cache = FreshCache, !.matches = <<>>,
                          !.annotated = <<>>, !.invoked = <<>>]
  /\ UNCHANGED <<kb, call, dates, cmp, agg>>

\* for_parses, lines 293-296 and 300: the key of the span is in the cache.
ForParsesCached ==
  /\ task.pc = "for_parses"
  /\ SpansLeft
  /\ KeyOf(CurrentSpan) \in DOMAIN task.cache
  /\ LET entry == task.cache[KeyOf(CurrentSpan)]
     IN  task' = [task EXCEPT
                    !.matches = Put(@, entry.stats),
                    !.hits = @ \cup {<<entry.rec, task.idx>>},
                    !.p = NextP, !.s = NextS]
  /\ UNCHANGED <<kb, call, dates, cmp, agg>>

\* for_parses, lines 293-300: the key is not in the cache; for_items runs
\* over the members and its result is stored, or its error ends run.
ForParsesComputed ==
  /\ task.pc = "for_parses"
  /\ SpansLeft
  /\ KeyOf(CurrentSpan) \notin DOMAIN task.cache
  /\ LET key == KeyOf(CurrentSpan)
         r == for_items(Category.members, CurrentSpan.pids, CurrentSpan.qid)
     IN  IF r.error # "none"
           THEN task' = [task EXCEPT !.pc = "error", !.error = r.error,
                                     !.invoked = Append(@, key)]
         ELSE task' = [task EXCEPT
                         !.cache = CacheStore(@, key,
                                     [stats |-> r.output, rec |-> task.idx]),
                         !.invoked = Append(@, key),
                         !.matches = Put(@, r.output),
                         !.p = NextP, !.s = NextS]
  /\ UNCHANGED <<kb, call, dates, cmp, agg>>

\* for_parses, line 302, and run, line 322: for_parses returns and the
\* frame cache of the record is made.
ForParsesReturn ==
  /\ task.pc = "for_parses"
  /\ ~SpansLeft
  /\ task' = [task EXCEPT !.pc = "attach", !.p = 1, !.s = 1,
                          !.frame_cache = FreshFrameCache]
  /\ UNCHANGED <<kb, call, dates, cmp, agg>>

\* run, lines 324-329: the span gets the frame of its match statistics,
\* made by as_frame when its key is not in the frame cache.
AttachSpan ==
  /\ task.pc = "attach"
  /\ SpansLeft
  /\ LET key == KeyOf(CurrentSpan)
         hit == key \in DOMAIN task.frame_cache
         frames ==
           IF hit THEN task.frame_cache
           ELSE FrameCacheStore(task.frame_cache, key,
                  [frame |-> as_frame(task.matches[task.p][task.s]),
                   rec |-> task.idx])
     IN  task' = [task EXCEPT
                    !.frame_cache = frames,
                    !.hits = IF hit
                               THEN @ \cup {<<frames[key].rec, task.idx>>}
                             ELSE @,
                    !.annotated =
                      Put(@, [span |-> CurrentSpan,
                              fact_matches |-> frames[key].frame]),
                    !.p = NextP, !.s = NextS]
  /\ UNCHANGED <<kb, call, dates, cmp, agg>>

\* run, lines 330-331: the annotated record is written under its key, then
\* the counter of processed categories is incremented.
WriteRecord ==
  /\ task.pc = "attach"
  /\ ~SpansLeft
  /\ task' = [task EXCEPT
                !.written = Append(@, Written(Category.key, task.annotated)),
                !.counter = Increment(@, Category),
                !.events = Effects(@),
                !.pc = "read"]
  /\ UNCHANGED <<kb, call, dates, cmp, agg>>

\* run, lines 332-333: the input is exhausted; reader and writer close.
CloseTask ==
  /\ task.pc = "read"
  /\ task.idx = Len(task.input)
  /\ task' = [task EXCEPT !.pc = "done"]
  /\ UNCHANGED <<kb, call, dates, cmp, agg>>

NextTask ==
  \/ ReadRecord
  \/ ForParsesCached
  \/ ForParsesComputed
  \/ ForParsesReturn
  \/ AttachSpan
  \/ WriteRecord
  \/ CloseTask

SpecTask == InitTask /\ [][NextTask]_vars

(***************************************************************************)
(* The call under observation, in the terms the properties are stated in.  *)
(***************************************************************************)
Done == call.pc = "done"

\* The property path of the call.
CallPath == NormalizeProp(call.prop)

\* The existing-fact set: the values of the item's facts under the path.
ExistingSet ==
  {call.item[i].value :
     i \in {j \in 1..Len(call.item) : call.item[j].pids = CallPath}}

DateCall == Last(CallPath) \in date_properties

\* The proposed value matches no existing value, literally or, for dates,
\* by scalar.
NoExactMatch ==
  /\ call.value \notin ExistingSet
  /\ DateCall =>
       \A e \in ExistingSet : DateValue(Date(e)) # DateValue(Date(call.value))

\* b is reachable from a over zero or more edges of relation r.
Reaches(r, a, b) == b.id \in Closure(r, {a.id})

\* The relations subsumption follows for the terminal property of the call.
CallRelations ==
  IF closure_properties(Last(CallPath)) # "none"
    THEN {closure_properties(Last(CallPath))}
  ELSE {p_subclass, p_parent_org}

\* a and b are the same item after redirects, or b is reachable from a.
Above(a, b) ==
  \/ resolve(a) = resolve(b)
  \/ \E r \in CallRelations : Reaches(r, resolve(a), resolve(b))

(***************************************************************************)
(* Properties of for_item.                                                 *)
(***************************************************************************)
\* The scenario of C1: P569 holds 1990 (YEAR), March 1990 (MONTH) proposed.
C1_Scenario ==
  /\ Done
  /\ CallPath = <<"P569">>
  /\ ExistingSet # {}
  /\ ExistingSet \subseteq {Year1990, RawYear1990}
  /\ call.value = March1990

\* C1 as stated: with 1990 (YEAR) existing for the date-valued P569 and
\* March 1990 (MONTH) proposed, for_item returns SUBSUMES_EXISTING.
C1_Original == C1_Scenario => call.result = "SUBSUMES_EXISTING"

\* C1 amended: with 1990 (YEAR) existing for the date-valued P569 and
\* March 1990 (MONTH) proposed, for_item returns SUBSUMED_BY_EXISTING: a
\* proposed date finer than an existing one is subsumed by it.
C1_Amended == C1_Scenario => call.result = "SUBSUMED_BY_EXISTING"

C1_Witness ==
  /\ C1_Scenario
  /\ Len(call.item) = 1
  /\ call.result = "SUBSUMED_BY_EXISTING"

\* C2: for the location-valued P19 with Paris existing, France proposed and
\* a located-in edge Paris -> France, for_item returns SUBSUMES_EXISTING.
C2_Claim ==
  ( /\ Done
    /\ CallPath = <<"P19">>
    /\ ExistingSet = {Item("Paris")}
    /\ call.value = Item("France")
    /\ <<"P131", "Paris", "France">> \in kb )
  => call.result = "SUBSUMES_EXISTING"

\* The case of C3: no exact match, one existing value the proposed one
\* subsumes and another that subsumes the proposed one.
C3_Case ==
  /\ Done
  /\ call.value.frame
  /\ NoExactMatch
  /\ \E e1, e2 \in ExistingSet :
       /\ e1 # e2
       /\ SubsumesExisting(CallPath, call.value, e1)
       /\ SubsumedByExisting(CallPath, call.value, e2)

\* C3: when the existing facts hold no exact match, one value the proposed
\* value subsumes and another that subsumes the proposed value, for_item
\* returns SUBSUMES_EXISTING, in whatever order the facts come.
C3_Precedence == C3_Case => call.result = "SUBSUMES_EXISTING"

\* 1990s and March 1990 exist, in this order, and 1990 is proposed.
C3_Witness ==
  /\ C3_Case
  /\ DateCall
  /\ Len(call.item) = 2
  /\ call.item[1].value = Decade1990
  /\ call.item[2].value = March1990
  /\ call.value = Year1990
  /\ call.result = "SUBSUMES_EXISTING"

\* The same case for an item-valued property.
C3_WitnessItems ==
  /\ C3_Case
  /\ ~DateCall
  /\ Cardinality({resolve(e) : e \in ExistingSet} \cup {resolve(call.value)}) = 3
  /\ call.result = "SUBSUMES_EXISTING"

\* C4: for_item returns CONFLICT only for a path of length 1 whose property
\* is unique-valued, with existing facts, no exact match and no existing
\* value that the proposed value subsumes or is subsumed by.
C4_ConflictOnly ==
  (Done /\ call.result = "CONFLICT") =>
    /\ Len(CallPath) = 1
    /\ CallPath[1] \in unique_properties
    /\ ExistingSet # {}
    /\ NoExactMatch
    /\ \A e \in ExistingSet :
         /\ ~SubsumesExisting(CallPath, call.value, e)
         /\ ~SubsumedByExisting(CallPath, call.value, e)

C4_Witness ==
  /\ Done
  /\ call.result = "CONFLICT"
  /\ Cardinality(ExistingSet) = 2

\* The scenario of C5: the unique-valued P26 holds the item X and a
\* different item Y is proposed.
C5_Scenario ==
  /\ Done
  /\ CallPath = <<"P26">>
  /\ Cardinality(ExistingSet) = 1
  /\ ExistingSet \subseteq ItemFrames
  /\ call.value \in ItemFrames
  /\ call.value \notin ExistingSet

\* C5 as stated: for the unique-valued P26 with existing X and proposed
\* Y # X, for_item returns CONFLICT whatever the relation graph.
C5_Original == C5_Scenario => call.result = "CONFLICT"

\* X and Y are the same item after redirects, or one is reachable from the
\* other over subclass-of or over parent-organization edges.
C5_Related ==
  \E x \in ExistingSet :
    \/ resolve(x) = resolve(call.value)
    \/ \E r \in {p_subclass, p_parent_org} :
         \/ Reaches(r, resolve(x), resolve(call.value))
         \/ Reaches(r, resolve(call.value), resolve(x))

\* C5 amended: for the unique-valued P26 with existing X and proposed
\* Y # X, for_item returns CONFLICT exactly when X and Y resolve to
\* different items neither of which is reachable from the other over
\* subclass-of or parent-organization edges; otherwise it returns
\* SUBSUMES_EXISTING or SUBSUMED_BY_EXISTING.
C5_Amended ==
  C5_Scenario =>
    IF C5_Related
      THEN call.result \in {"SUBSUMES_EXISTING", "SUBSUMED_BY_EXISTING"}
    ELSE call.result = "CONFLICT"

C5_Witness ==
  /\ C5_Scenario
  /\ ~C5_Related
  /\ kb # {}
  /\ call.result = "CONFLICT"

\* The case of C6: one existing value, and a proposed value that is not an
\* exact match of it.
C6_Case ==
  /\ Done
  /\ call.value.frame
  /\ Cardinality(ExistingSet) = 1
  /\ NoExactMatch

\* C6 as stated: for one existing value and a proposed value that is not
\* an exact match, the SUBSUMES_EXISTING condition and the
\* SUBSUMED_BY_EXISTING condition never both hold.
C6_Original ==
  C6_Case =>
    \A e \in ExistingSet :
      ~( /\ SubsumesExisting(CallPath, call.value, e)
         /\ SubsumedByExisting(CallPath, call.value, e) )

\* C6 amended: for one existing value e and a proposed value v that is not
\* an exact match, the two conditions never both hold for a date-valued
\* property; for an item-valued property they both hold exactly when e is
\* a frame and v and e resolve to the same item or each is reachable from
\* the other over the relations subsumption follows (a cycle).
C6_Amended ==
  C6_Case =>
    \A e \in ExistingSet :
      ( /\ SubsumesExisting(CallPath, call.value, e)
        /\ SubsumedByExisting(CallPath, call.value, e) )
      <=> ( /\ ~DateCall
            /\ e.frame
            /\ Above(call.value, e)
            /\ Above(e, call.value) )

\* A redirect of the existing item is proposed: both conditions hold.
C6_Witness ==
  /\ C6_Case
  /\ ExistingSet = {Item("Paris")}
  /\ call.value = Item("ParisRedirect")
  /\ SubsumesExisting(CallPath, call.value, Item("Paris"))
  /\ SubsumedByExisting(CallPath, call.value, Item("Paris"))

\* Exactly one of the two conditions holds, for dates.
C6_WitnessDates ==
  /\ C6_Case
  /\ DateCall
  /\ \E e \in ExistingSet :
       /\ SubsumedByExisting(CallPath, call.value, e)
       /\ ~SubsumesExisting(CallPath, call.value, e)

\* No fact of the item has the requested path as its properties.
C7_NoFactForPath ==
  \A i \in 1..Len(call.item) : call.item[i].pids # CallPath

\* C7: when the extractor yields no fact whose properties equal the
\* requested path, for_item returns NEW (and no error) for every value that
\* is a sling.Frame, whatever the flags of the property.
C7_NewWhenNoFacts ==
  (Done /\ call.value.frame /\ C7_NoFactForPath) => call.result = "NEW"

\* The extractor yields facts, all of another path, for a property that is
\* unique-valued and location-valued.
C7_Witness ==
  /\ Done
  /\ call.value.frame
  /\ Len(call.item) = 2
  /\ C7_NoFactForPath
  /\ CallPath = <<"P19">>
  /\ call.result = "NEW"

\* C8: when the proposed value (a sling.Frame) is literally among the
\* existing facts, for_item returns EXACT, wherever it stands in the
\* sequence and whatever else the sequence holds.
C8_ExactWhenMember ==
  ( /\ Done
    /\ call.value.frame
    /\ \E i \in 1..Len(call.item) :
         call.item[i].pids = CallPath /\ call.item[i].value = call.value )
  => call.result = "EXACT"

\* The proposed value comes second, after a value it subsumes.
C8_Witness ==
  /\ Done
  /\ call.value.frame
  /\ Len(call.item) = 2
  /\ call.item[1].pids = CallPath
  /\ call.item[2].pids = CallPath
  /\ call.item[2].value = call.value
  /\ call.item[1].value # call.value
  /\ SubsumesExisting(CallPath, call.value, call.item[1].value)
  /\ call.result = "EXACT"

(***************************************************************************)
(* Properties of _finer_date.                                              *)
(***************************************************************************)
\* C9: _finer_date is irreflexive and asymmetric: finer(a, a) is false and
\* finer(a, b) and finer(b, a) are never both true.
C9_StrictOrder == cmp.done => (~cmp.aa /\ ~(cmp.ab /\ cmp.ba))

\* a is finer than b, and both have the same year.
C9_Witness ==
  /\ cmp.done
  /\ cmp.ab
  /\ ~cmp.ba
  /\ dates[1].year = dates[2].year

\* C10: _finer_date is transitive: finer(a, b) and finer(b, c) imply
\* finer(a, c).
C10_Transitive == (cmp.done /\ cmp.ab /\ cmp.bc) => cmp.ac

(***************************************************************************)
(* Properties of Output.                                                   *)
(***************************************************************************)
Min(a, b) == IF a < b THEN a ELSE b

\* C11: after any sequence of Output.add calls, each of EXACT, CONFLICT and
\* SUBSUMES_EXISTING holds the first min(count, 10) items added with it, so
\* at most 10, and each of NEW, SUBSUMED_BY_EXISTING and ADDITIONAL holds
\* as many items as its count, all those added with it.
C11_Exemplars ==
  \A t \in FactMatchType :
    /\ agg.out.counts[t] = Len(agg.added[t])
    /\ IF t \in {"EXACT", "CONFLICT", "SUBSUMES_EXISTING"}
         THEN /\ Len(agg.out.source_items[t]) = Min(agg.out.counts[t], 10)
              /\ agg.out.source_items[t] =
                   SubSeq(agg.added[t], 1, Min(agg.out.counts[t], 10))
       ELSE /\ Len(agg.out.source_items[t]) = agg.out.counts[t]
            /\ agg.out.source_items[t] = agg.added[t]

\* Eleven items were added as EXACT, ten are kept; one item was added as
\* NEW in between and is kept.
C11_Witness ==
  /\ agg.out.counts["EXACT"] = 11
  /\ Len(agg.out.source_items["EXACT"]) = 10
  /\ agg.out.counts["NEW"] = 1
  /\ agg.out.source_items["NEW"] = <<5>>

(***************************************************************************)
(* Properties of for_parses and run.                                       *)
(***************************************************************************)
\* The positions (p, s) of the spans of a list of parses.
Positions(parses) ==
  UNION {{<<p, s>> : s \in 1..Len(parses[p])} : p \in 1..Len(parses)}

\* How many times for_items was invoked for the key in the current record.
Invocations(key) ==
  Cardinality({i \in 1..Len(task.invoked) : task.invoked[i] = key})

\* for_parses has returned for the current record.
Returned == task.idx > 0 /\ task.pc = "attach"

\* C12: within one record, for_items is invoked at most once for every
\* (property path, value) key, exactly once for the key of every span when
\* for_parses has returned, and all spans with the same key have the same
\* histogram, in the result of for_parses and in the record written.
C12_OncePerKey ==
  /\ \A i, j \in 1..Len(task.invoked) :
       i # j => task.invoked[i] # task.invoked[j]
  /\ Returned =>
       \A x \in Positions(Category.parses) :
         /\ Invocations(KeyOf(Category.parses[x[1]][x[2]])) = 1
         /\ \A y \in Positions(Category.parses) :
              KeyOf(Category.parses[x[1]][x[2]])
                = KeyOf(Category.parses[y[1]][y[2]])
              => task.matches[x[1]][x[2]] = task.matches[y[1]][y[2]]
  /\ \A r \in 1..Len(task.written) :
       \A x, y \in Positions(task.written[r].parses) :
         LET a == task.written[r].parses[x[1]][x[2]]
             b == task.written[r].parses[y[1]][y[2]]
         IN  KeyOf(a.span) = KeyOf(b.span) => a.fact_matches = b.fact_matches

\* A record with members whose two parses share the span (P26, Paris):
\* for_parses has returned after two invocations for three spans.
C12_Witness ==
  /\ Returned
  /\ Len(Category.members) > 0
  /\ Len(Category.parses) = 2
  /\ KeyOf(Category.parses[1][1]) = KeyOf(Category.parses[2][1])
  /\ Len(task.invoked) = 2
  /\ task.matches[2][1].counts["NEW"] = 1


\* The histogram run attached to the span at position pos of written record r.
Attached(r, pos) == task.written[r].parses[pos[1]][pos[2]]

\* The histogram of a span computed over the members of input record r only.
OverMembers(r, span) ==
  as_frame(for_items(task.input[r].members, span.pids, span.qid).output)

\* C13: the caches are scoped to one record: no entry of the statistics
\* cache or of the frame cache made for one record is read while another is
\* processed, and the histogram attached to every span of a written record
\* is the one computed over the members of that record only.
C13_RecordScoped ==
  /\ \A h \in task.hits : h[1] = h[2]
  /\ \A r \in 1..Len(task.written) :
       \A pos \in Positions(task.input[r].parses) :
         Attached(r, pos).fact_matches = OverMembers(r, Attached(r, pos).span)

\* Two written records whose first spans share a key, with different
\* members and different histograms.
C13_Witness ==
  /\ Len(task.written) = 2
  /\ task.input[1].members # task.input[2].members
  /\ Len(task.input[1].parses) > 0
  /\ Len(task.input[2].parses) > 0
  /\ KeyOf(Attached(1, <<1, 1>>).span) = KeyOf(Attached(2, <<1, 1>>).span)
  /\ Attached(1, <<1, 1>>).fact_matches # Attached(2, <<1, 1>>).fact_matches
  /\ \E h \in task.hits : h = <<2, 2>>


\* The spans of a list of parses, without their annotations.
SpansOf(annotated) ==
  [p \in 1..Len(annotated) |->
     [s \in 1..Len(annotated[p]) |-> annotated[p][s].span]]

\* Output record j is input record j: same key, same spans.
SameRecord(j) ==
  /\ task.written[j].key = task.input[j].key
  /\ SpansOf(task.written[j].parses) = task.input[j].parses

\* Every write is followed by its increment, and nothing else happens.
WriteThenIncrement ==
  /\ Len(task.events) = 2 * Len(task.written)
  /\ \A i \in 1..Len(task.events) :
       task.events[i] = IF i % 2 = 1 THEN "write" ELSE "increment"

C14_State ==
  /\ Len(task.written) <= Len(task.input)
  /\ \A j \in 1..Len(task.written) : SameRecord(j)
  /\ WriteThenIncrement
  /\ task.counter = Len(task.written)
  /\ task.pc = "done" => task.counter = Len(task.input)

\* A step writes nothing, or writes the next input record and adds one to
\* the counter; the counter never decreases.
C14_Step ==
  /\ task'.counter >= task.counter
  /\ \/ /\ task'.written = task.written
        /\ task'.counter = task.counter
     \/ /\ Len(task'.written) = Len(task.written) + 1
        /\ SubSeq(task'.written, 1, Len(task.written)) = task.written
        /\ task'.counter = task.counter + 1

C15_Claim ==
  \A r \in 1..Len(task.written) :
    \A pos \in Positions(task.written[r].parses) :
      ~Malformed(Attached(r, pos).span)

====
